---- MODULE Spec2Model ----
(***************************************************************************)
(* Call-graph construction (libredex/CallGraph.cpp), the simple-fast       *)
(* dominator engine exercised by test/unit/DominatorsTest.cpp, and the     *)
(* inliner configuration walk (libredex/InlinerConfig.cpp).                *)
(***************************************************************************)
EXTENDS Integers, Sequences, FiniteSets, TLC

\* ------------------------------------------------------------------ bounds
NumMethods == 3     \* methods of the program, 1..NumMethods
MaxRoots == 2       \* length of a free strategy's roots list
MaxSites == 3       \* callsite entries of a free strategy, over all methods
MaxVisits == 2      \* cap on get_callsites invocations per method
MaxInsns == 2       \* instructions of a bounded scope, over all methods
NumNodes == 4       \* nodes of a drawn rooted graph, 0..NumNodes-1
MaxEdges == 5       \* edges of a drawn rooted graph
NumClasses == 2     \* classes the inliner configuration may be populated with
MaxPopulates == 2   \* calls of InlinerConfig::populate

Methods == 1..NumMethods

\* A null DexMethod* (resolve_method found nothing).
nullptr == 0
\* Node::GHOST_ENTRY and Node::GHOST_EXIT; a method's node is the method.
GHOST_ENTRY == -1
GHOST_EXIT == -2
\* IRList::iterator(): the locator of the ghost edges.
NullIterator == 0

VARIABLES
  scope,     \* the program: one record per method
  kind,      \* "single" | "complete" | "free": which BuildStrategy
  strat,     \* a free BuildStrategy: [roots, callsites]
  roots,     \* the local `roots` of Graph::Graph
  edges,     \* every Edge made so far, in creation order
  m_nodes,   \* keys of Graph::m_nodes
  visited,   \* the visited set of Graph::Graph
  stack,     \* active visit_impl frames: [caller, callsites, idx]
  ri,        \* position of the first loop over the roots
  vi,        \* position of the second loop over the roots
  calls      \* how often get_callsites ran, per method

cgVars == <<scope, kind, strat, roots, edges, m_nodes, visited, stack, ri, vi, calls>>

VARIABLES
  graph,           \* the rooted graph handed to SimpleFastDominators
  m_postordering,  \* its nodes in postorder from the entry
  m_idoms,         \* node -> immediate dominator so far, or NoIdom
  changed,         \* an idom changed in the pass at hand
  pos,             \* place in the reverse postorder of the pass at hand
  dstate           \* "idle" | "pass" | "done"

domVars == <<graph, m_postordering, m_idoms, changed, pos, dstate>>

VARIABLES
  program,              \* the classes: [name, cls_annos, meth_annos]
  m_populated,          \* InlinerConfig::m_populated
  black_list,           \* the three populated sets of types
  caller_black_list,
  intradex_white_list,
  dont_inline,          \* methods whose rstate has dont_inline set
  force_inline,         \* methods whose rstate has force_inline set
  ipc,                  \* "idle" | "methods": where populate stands
  arg,                  \* the scope of the latest call of populate
  task,                 \* per method, its task of walk::parallel::methods:
                        \* "none" | "start" | "check" | "done"
  ncalls                \* calls of populate so far

inlVars == <<program, m_populated, black_list, caller_black_list, intradex_white_list,
             dont_inline, force_inline, ipc, arg, task, ncalls>>

vars == <<cgVars, domVars, inlVars>>

\* ------------------------------------------------------- sequences of bounded size
RECURSIVE SeqsUpTo(_, _)
SeqsUpTo(S, n) ==
  IF n = 0 THEN {<<>>}
  ELSE LET shorter == SeqsUpTo(S, n - 1)
       IN  shorter \cup {Append(s, x) : s \in {t \in shorter : Len(t) = n - 1}, x \in S}

\* ------------------------------------------------------------------ the scope
\* A method: is_concrete(), get_code() != nullptr, the invoke instructions of
\* its code in order (each with what resolve_method returns for it; its place
\* in the list is its locator), is_virtual(), membership in
\* get_non_true_virtuals(scope), root(), method::is_clinit(), and the method it
\* directly overrides in the override graph.
Insn(callee) == [resolved |-> callee]

is_concrete(m) == scope[m].concrete
has_code(m) == scope[m].has_code
is_virtual(m) == scope[m].virtual
root(m) == scope[m].root
is_clinit(m) == scope[m].clinit

\* m_non_virtual: the result of mog::get_non_true_virtuals(scope).
m_non_virtual == {m \in Methods : scope[m].non_true_virtual}

\* SingleCalleeStrategy::is_definitely_virtual
is_definitely_virtual(m) == is_virtual(m) /\ m \notin m_non_virtual

\* mog::get_overriding_methods: every method that transitively overrides m.
RECURSIVE OverridingFrom(_, _)
OverridingFrom(frontier, seen) ==
  LET next == {c \in Methods : scope[c].parent \in frontier} \ seen
  IN  IF next = {} THEN seen ELSE OverridingFrom(next, seen \cup next)

get_overriding_methods(m) == OverridingFrom({m}, {})

\* A set of methods as a vector, in ascending order.
RECURSIVE AsVector(_)
AsVector(S) ==
  IF S = {} THEN <<>>
  ELSE LET least == CHOOSE x \in S : \A y \in S : x <= y
       IN  <<least>> \o AsVector(S \ {least})

callsite(callee, invoke_it) == [callee |-> callee, invoke |-> invoke_it]

\* --------------------------------------------------------- SingleCalleeStrategy
\* The `continue` taken for an unresolved invoke only.
SkipsUnresolvedOnly(callee) == callee = nullptr

\* The `continue` of the loop: nothing resolved, or a true virtual.
SingleCalleeSkips(callee) == callee = nullptr \/ is_definitely_virtual(callee)

\* What one instruction adds to the callsites.
SingleCalleeSitesAt(method, i) ==
  LET insn == scope[method].insns[i]
  IN  IF SingleCalleeSkips(insn.resolved) THEN <<>>
      ELSE IF is_concrete(insn.resolved) THEN <<callsite(insn.resolved, i)>>
      ELSE <<>>

RECURSIVE SingleCalleeLoop(_, _)
SingleCalleeLoop(method, i) ==
  IF i > Len(scope[method].insns) THEN <<>>
  ELSE SingleCalleeSitesAt(method, i) \o SingleCalleeLoop(method, i + 1)

SingleCallee_get_callsites(method) ==
  IF ~has_code(method) THEN <<>> ELSE SingleCalleeLoop(method, 1)

\* The test of SingleCalleeStrategy::get_roots, under walk::code.
SingleCalleeIsRoot(method) ==
  /\ has_code(method)
  /\ is_definitely_virtual(method) \/ root(method) \/ is_clinit(method)

SingleCallee_get_roots == AsVector({m \in Methods : SingleCalleeIsRoot(m)})

\* ---------------------------------------------------- CompleteCallGraphStrategy
\* The is_concrete() test negated.
DirectSiteUnlessConcrete(callee, i) ==
  IF ~is_concrete(callee) THEN <<callsite(callee, i)>> ELSE <<>>

\* The edge to the resolved method itself.
CompleteDirectSite(callee, i) ==
  IF is_concrete(callee) THEN <<callsite(callee, i)>> ELSE <<>>

\* The edges to the methods overriding it.
RECURSIVE SitesTo(_, _)
SitesTo(overriding, i) ==
  IF overriding = <<>> THEN <<>>
  ELSE <<callsite(Head(overriding), i)>> \o SitesTo(Tail(overriding), i)

\* Only the methods that override the callee directly.
DirectOverridingSites(callee, i) ==
  SitesTo(AsVector({c \in Methods : scope[c].parent = callee}), i)

CompleteOverridingSites(callee, i) ==
  SitesTo(AsVector(get_overriding_methods(callee)), i)

CompleteSitesAt(method, i) ==
  LET insn == scope[method].insns[i]
  IN  IF insn.resolved = nullptr THEN <<>>
      ELSE CompleteDirectSite(insn.resolved, i) \o CompleteOverridingSites(insn.resolved, i)

RECURSIVE CompleteLoop(_, _)
CompleteLoop(method, i) ==
  IF i > Len(scope[method].insns) THEN <<>>
  ELSE CompleteSitesAt(method, i) \o CompleteLoop(method, i + 1)

Complete_get_callsites(method) ==
  IF ~has_code(method) THEN <<>> ELSE CompleteLoop(method, 1)

\* The test of CompleteCallGraphStrategy::get_roots, under walk::methods.
CompleteIsRoot(method) ==
  /\ is_concrete(method)
  /\ root(method) \/ is_clinit(method)

Complete_get_roots == AsVector({m \in Methods : CompleteIsRoot(m)})

\* BuildStrategy's two virtual functions, dispatched on the strategy at hand:
\* the one single_callee_graph or complete_call_graph makes, or a free one.
get_roots ==
  CASE kind = "single" -> SingleCallee_get_roots
    [] kind = "complete" -> Complete_get_roots
    [] OTHER -> strat.roots

get_callsites(caller) ==
  CASE kind = "single" -> SingleCallee_get_callsites(caller)
    [] kind = "complete" -> Complete_get_callsites(caller)
    [] OTHER -> strat.callsites[caller]

\* ------------------------------------------------------------ Graph (CallGraph.cpp)
Edge(caller, callee, invoke_it) ==
  [caller |-> caller, callee |-> callee, invoke |-> invoke_it]

\* Graph::make_node: the node of m, created when absent.
make_node(nodes, m) == nodes \cup {m}

\* add_edge with its endpoints taken in the wrong order.
add_edge_swapped(es, caller, callee, invoke_it) ==
  Append(es, Edge(callee, caller, invoke_it))

\* Graph::add_edge: a fresh edge appended to both endpoint lists.
add_edge(es, caller, callee, invoke_it) ==
  Append(es, Edge(caller, callee, invoke_it))

\* The visited test left out.
NeverVisited(caller) == FALSE

\* visited.count(caller) != 0
AlreadyVisited(caller) == caller \in visited

\* The callsites.empty() branch left out.
NoSinkEdges(es, caller, callsites) == es

\* The edge a method without callsites gets.
SinkEdges(es, caller, callsites) ==
  IF callsites = <<>> THEN add_edge(es, caller, GHOST_EXIT, NullIterator) ELSE es

\* One call of visit_impl(caller), up to its loop over the callsites.
visit_impl(caller, es, nodes, st) ==
  IF AlreadyVisited(caller)
  THEN /\ edges' = es
       /\ m_nodes' = nodes
       /\ stack' = st
       /\ UNCHANGED <<visited, calls>>
  ELSE /\ calls[caller] < MaxVisits
       /\ visited' = visited \cup {caller}
       /\ calls' = [calls EXCEPT ![caller] = @ + 1]
       /\ LET callsites == get_callsites(caller)
          IN  /\ edges' = SinkEdges(es, caller, callsites)
              /\ m_nodes' = IF callsites = <<>> THEN make_node(nodes, caller) ELSE nodes
              /\ stack' = Append(st, [caller |-> caller, callsites |-> callsites, idx |-> 1])

\* First loop of Graph::Graph: an edge from the ghost entry to each root.
AddRootEdge ==
  /\ ri <= Len(roots)
  /\ edges' = add_edge(edges, GHOST_ENTRY, roots[ri], NullIterator)
  /\ m_nodes' = make_node(m_nodes, roots[ri])
  /\ ri' = ri + 1
  /\ UNCHANGED <<scope, kind, strat, roots, visited, stack, vi, calls>>
  /\ UNCHANGED <<domVars, inlVars>>

\* Second loop of Graph::Graph: visit(root).
VisitRoot ==
  /\ ri > Len(roots)
  /\ stack = <<>>
  /\ vi <= Len(roots)
  /\ visit_impl(roots[vi], edges, m_nodes, stack)
  /\ vi' = vi + 1
  /\ UNCHANGED <<scope, kind, strat, roots, ri>>
  /\ UNCHANGED <<domVars, inlVars>>

\* One iteration of the loop over callsites: add_edge, then the recursive call.
VisitCallee ==
  /\ stack # <<>>
  /\ LET top == stack[Len(stack)]
     IN  /\ top.idx <= Len(top.callsites)
         /\ LET cs == top.callsites[top.idx]
                st == [stack EXCEPT ![Len(stack)].idx = @ + 1]
            IN  visit_impl(cs.callee,
                           add_edge(edges, top.caller, cs.callee, cs.invoke),
                           make_node(make_node(m_nodes, top.caller), cs.callee),
                           st)
  /\ UNCHANGED <<scope, kind, strat, roots, ri, vi>>
  /\ UNCHANGED <<domVars, inlVars>>

\* visit_impl returns once its loop is over.
Return ==
  /\ stack # <<>>
  /\ LET top == stack[Len(stack)]
     IN  top.idx > Len(top.callsites)
  /\ stack' = SubSeq(stack, 1, Len(stack) - 1)
  /\ UNCHANGED <<scope, kind, strat, roots, edges, m_nodes, visited, ri, vi, calls>>
  /\ UNCHANGED <<domVars, inlVars>>

BuildNext == AddRootEdge \/ VisitRoot \/ VisitCallee \/ Return

\* The constructor has returned: both loops over the roots are over.
Constructed ==
  /\ ri > Len(roots)
  /\ vi > Len(roots)
  /\ stack = <<>>

\* The state right after the member initialisers of Graph::Graph.
GraphInit ==
  /\ roots = get_roots
  /\ edges = <<>>
  /\ m_nodes = {}
  /\ visited = {}
  /\ stack = <<>>
  /\ ri = 1
  /\ vi = 1
  /\ calls = [m \in Methods |-> 0]

\* ------------------------------------------------------- SimpleFastDominators
\* The engine's entry node and its "no idom yet" mark.
Entry == 0
NoIdom == -1

Nodes(g) == 0..(g.n - 1)
Succs(g, v) == {w \in Nodes(g) : <<v, w>> \in g.edges}
Preds(g, v) == {u \in Nodes(g) : <<u, v>> \in g.edges}

\* Depth-first search from the entry, successors in ascending order; a node is
\* numbered once all its successors are.
RECURSIVE DfsVisit(_, _, _)
RECURSIVE DfsSuccs(_, _, _)
DfsVisit(g, v, st) ==
  LET below == DfsSuccs(g, AsVector(Succs(g, v)), [seen |-> st.seen \cup {v}, order |-> st.order])
  IN  [seen |-> below.seen, order |-> Append(below.order, v)]

DfsSuccs(g, succs, st) ==
  IF succs = <<>> THEN st
  ELSE DfsSuccs(g, Tail(succs),
                IF Head(succs) \in st.seen THEN st ELSE DfsVisit(g, Head(succs), st))

PostorderSort(g) == DfsVisit(g, Entry, [seen |-> {}, order |-> <<>>]).order

\* m_postorder_map: a node's postorder number.
PostorderNumber(order, v) == CHOOSE i \in DOMAIN order : order[i] = v

\* The two-finger walk up the dominator tree.
RECURSIVE intersect(_, _, _, _)
intersect(idoms, order, finger1, finger2) ==
  IF finger1 = finger2 THEN finger1
  ELSE IF PostorderNumber(order, finger1) < PostorderNumber(order, finger2)
       THEN intersect(idoms, order, idoms[finger1], finger2)
       ELSE intersect(idoms, order, finger1, idoms[finger2])

\* The intersection of the predecessors that have an idom already.
RECURSIVE FoldPreds(_, _, _, _)
FoldPreds(idoms, order, preds, new_idom) ==
  IF preds = <<>> THEN new_idom
  ELSE LET p == Head(preds)
       IN  FoldPreds(idoms, order, Tail(preds),
                     IF idoms[p] = NoIdom THEN new_idom
                     ELSE IF new_idom = NoIdom THEN p
                     ELSE intersect(idoms, order, new_idom, p))

\* The first predecessor that has an idom, the others never intersected.
RECURSIVE FirstProcessed(_, _)
FirstProcessed(idoms, preds) ==
  IF preds = <<>> THEN NoIdom
  ELSE IF idoms[Head(preds)] # NoIdom THEN Head(preds)
  ELSE FirstProcessed(idoms, Tail(preds))

NewIdomFirstPred(g, idoms, order, v) == FirstProcessed(idoms, AsVector(Preds(g, v)))

NewIdom(g, idoms, order, v) == FoldPreds(idoms, order, AsVector(Preds(g, v)), NoIdom)

\* The node at place i of the reverse postorder.
ReversePostorder(order, i) == order[Len(order) + 1 - i]

\* The constructor up to its loop: postorder, idom(entry) = entry.
DomStart ==
  /\ dstate = "idle"
  /\ m_postordering' = PostorderSort(graph)
  /\ m_idoms' = [v \in Nodes(graph) |-> IF v = Entry THEN Entry ELSE NoIdom]
  /\ changed' = FALSE
  /\ pos' = 1
  /\ dstate' = "pass"
  /\ UNCHANGED graph
  /\ UNCHANGED <<cgVars, inlVars>>

\* One node of a pass in reverse postorder.
DomNode ==
  /\ dstate = "pass"
  /\ pos <= Len(m_postordering)
  /\ LET v == ReversePostorder(m_postordering, pos)
         new_idom == NewIdom(graph, m_idoms, m_postordering, v)
     IN  IF v = Entry \/ m_idoms[v] = new_idom
         THEN UNCHANGED <<m_idoms, changed>>
         ELSE /\ m_idoms' = [m_idoms EXCEPT ![v] = new_idom]
              /\ changed' = TRUE
  /\ pos' = pos + 1
  /\ UNCHANGED <<graph, m_postordering, dstate>>
  /\ UNCHANGED <<cgVars, inlVars>>

\* A pass that changed an idom is followed by another.
DomAgain ==
  /\ dstate = "pass"
  /\ pos > Len(m_postordering)
  /\ changed
  /\ changed' = FALSE
  /\ pos' = 1
  /\ UNCHANGED <<graph, m_postordering, m_idoms, dstate>>
  /\ UNCHANGED <<cgVars, inlVars>>

\* A pass that changed nothing ends the constructor.
DomFinish ==
  /\ dstate = "pass"
  /\ pos > Len(m_postordering)
  /\ ~changed
  /\ dstate' = "done"
  /\ UNCHANGED <<graph, m_postordering, m_idoms, changed, pos>>
  /\ UNCHANGED <<cgVars, inlVars>>

DomNext == DomStart \/ DomNode \/ DomAgain \/ DomFinish

\* No dominator engine at work.
DomIdle ==
  /\ graph = [n |-> 1, edges |-> {}]
  /\ m_postordering = <<>>
  /\ m_idoms = <<>>
  /\ changed = FALSE
  /\ pos = 1
  /\ dstate = "idle"

\* get_idom
get_idom(v) == m_idoms[v]

\* ------------------------------------------------------------- InlinerConfig
Classes == 1..NumClasses

\* A class has its direct and its virtual methods; here one of each.
IMethods == Classes \X {"dmethod", "vmethod"}
Owner(method) == method[1]

\* The configured lists: name prefixes, and annotation types.
m_black_list == << <<"a">> >>
m_caller_black_list == << <<"b">> >>
m_intradex_white_list == << <<"b", "a">>, <<"a", "b">> >>
m_no_inline_annos == {"DoNotInline"}
m_force_inline_annos == {"ForceInline"}

\* boost::starts_with
starts_with(name, prefix) ==
  /\ Len(prefix) <= Len(name)
  /\ SubSeq(name, 1, Len(prefix)) = prefix

\* One of the three loops over a list of prefixes: a match, then break.
MatchesAny(cls, list) ==
  \E i \in DOMAIN list : starts_with(program.name[cls], list[i])

\* has_any_annotation
has_any_annotation(annos, wanted) == annos \cap wanted # {}

\* The if (m_populated) test left out.
NeverPopulated == FALSE

\* if (m_populated) return
AlreadyPopulated == m_populated

\* A later call of populate: it returns at once.
PopulateAgain ==
  /\ ipc = "idle"
  /\ ncalls < MaxPopulates
  /\ AlreadyPopulated
  /\ \E sc \in SUBSET Classes : arg' = sc
  /\ ncalls' = ncalls + 1
  /\ UNCHANGED <<program, m_populated, black_list, caller_black_list,
                 intradex_white_list, dont_inline, force_inline, ipc, task>>
  /\ UNCHANGED <<cgVars, domVars>>

\* populate up to the parallel walk: walk::classes over the scope, then one task
\* per method of the scope is handed to the pool.
PopulateClasses ==
  /\ ipc = "idle"
  /\ ncalls < MaxPopulates
  /\ ~AlreadyPopulated
  /\ \E sc \in SUBSET Classes :
       /\ arg' = sc
       /\ black_list' =
            black_list \cup {c \in sc : MatchesAny(c, m_black_list)}
       /\ caller_black_list' =
            caller_black_list \cup {c \in sc : MatchesAny(c, m_caller_black_list)}
       /\ intradex_white_list' =
            intradex_white_list \cup {c \in sc : MatchesAny(c, m_intradex_white_list)}
       /\ dont_inline' =
            dont_inline \cup
              {m \in IMethods :
                 /\ Owner(m) \in sc
                 /\ has_any_annotation(program.cls_annos[Owner(m)], m_no_inline_annos)}
       /\ task' = [m \in IMethods |-> IF Owner(m) \in sc THEN "start" ELSE "none"]
  /\ ipc' = "methods"
  /\ ncalls' = ncalls + 1
  /\ UNCHANGED <<program, m_populated, force_inline>>
  /\ UNCHANGED <<cgVars, domVars>>

\* A method's task reads its own dont_inline flag.
TaskRead(method) ==
  /\ ipc = "methods"
  /\ task[method] = "start"
  /\ task' = [task EXCEPT ![method] = IF method \in dont_inline THEN "done" ELSE "check"]
  /\ UNCHANGED <<program, m_populated, black_list, caller_black_list,
                 intradex_white_list, dont_inline, force_inline, ipc, arg, ncalls>>
  /\ UNCHANGED <<cgVars, domVars>>

\* The force-inline annotations looked at first.
ForceBeforeNoInline(annos) ==
  IF has_any_annotation(annos, m_force_inline_annos) THEN "force_inline"
  ELSE IF has_any_annotation(annos, m_no_inline_annos) THEN "dont_inline"
  ELSE "neither"

\* The flag a method's own annotations ask for: no-inline first, else force.
FlagFor(annos) ==
  IF has_any_annotation(annos, m_no_inline_annos) THEN "dont_inline"
  ELSE IF has_any_annotation(annos, m_force_inline_annos) THEN "force_inline"
  ELSE "neither"

\* A method's task sets the flag its annotations ask for, on its own rstate.
TaskWrite(method) ==
  /\ ipc = "methods"
  /\ task[method] = "check"
  /\ LET flag == FlagFor(program.meth_annos[method])
     IN  /\ dont_inline' = IF flag = "dont_inline" THEN dont_inline \cup {method}
                           ELSE dont_inline
         /\ force_inline' = IF flag = "force_inline" THEN force_inline \cup {method}
                            ELSE force_inline
  /\ task' = [task EXCEPT ![method] = "done"]
  /\ UNCHANGED <<program, m_populated, black_list, caller_black_list,
                 intradex_white_list, ipc, arg, ncalls>>
  /\ UNCHANGED <<cgVars, domVars>>

\* Every task has run: m_populated = true, and populate returns.
PopulateDone ==
  /\ ipc = "methods"
  /\ \A m \in IMethods : task[m] \in {"none", "done"}
  /\ m_populated' = TRUE
  /\ ipc' = "idle"
  /\ UNCHANGED <<program, black_list, caller_black_list, intradex_white_list,
                 dont_inline, force_inline, arg, task, ncalls>>
  /\ UNCHANGED <<cgVars, domVars>>

InlNext ==
  \/ PopulateAgain
  \/ PopulateClasses
  \/ \E m \in IMethods : TaskRead(m)
  \/ \E m \in IMethods : TaskWrite(m)
  \/ PopulateDone

\* A fresh InlinerConfig, and methods with a fresh rstate.
InlFresh ==
  /\ m_populated = FALSE
  /\ black_list = {}
  /\ caller_black_list = {}
  /\ intradex_white_list = {}
  /\ dont_inline = {}
  /\ force_inline = {}
  /\ ipc = "idle"
  /\ arg = {}
  /\ task = [m \in IMethods |-> "none"]
  /\ ncalls = 0

\* No inliner configuration at work.
InlIdle ==
  /\ program = [name |-> [c \in Classes |-> <<>>],
                cls_annos |-> [c \in Classes |-> {}],
                meth_annos |-> [m \in IMethods |-> {}]]
  /\ InlFresh

\* ------------------------------------------------ any BuildStrategy (free strategy)
\* A strategy's callsites, drawn as one flat list of (caller, callee, invoke)
\* entries and split per caller, the entries of one caller keeping their order.
SiteEntry == [caller : Methods, callee : Methods, invoke : 1..MaxSites]

RECURSIVE SitesOf(_, _)
SitesOf(flat, m) ==
  IF flat = <<>> THEN <<>>
  ELSE LET rest == SitesOf(Tail(flat), m)
       IN  IF Head(flat).caller = m
           THEN <<[callee |-> Head(flat).callee, invoke |-> Head(flat).invoke]>> \o rest
           ELSE rest

FreeStrategies ==
  { [roots |-> r, callsites |-> [m \in Methods |-> SitesOf(flat, m)]] :
      r \in SeqsUpTo(Methods, MaxRoots),
      flat \in SeqsUpTo(SiteEntry, MaxSites) }

\* A scope with nothing in it, for a strategy that reads none.
ExternalMethod(virt) ==
  [concrete |-> FALSE, has_code |-> FALSE, insns |-> <<>>, virtual |-> virt,
   non_true_virtual |-> FALSE, root |-> FALSE, clinit |-> FALSE, parent |-> nullptr]

StrategyInit ==
  /\ DomIdle
  /\ InlIdle
  /\ scope = [m \in Methods |-> ExternalMethod(FALSE)]
  /\ kind = "free"
  /\ strat \in FreeStrategies
  /\ GraphInit

StrategySpec == StrategyInit /\ [][BuildNext]_vars

\* ------------------------------------------------------------- bounded scopes
\* What a method is, apart from its instructions and what it overrides:
\* external (not concrete), abstract (concrete, no code), or with code; direct,
\* non-true virtual or true virtual; rooted or not. A rooted virtual method is
\* a true virtual, and a static initialiser is a direct method with code.
DefinedMethod(code, virt, ntv, rooted, clin) ==
  [concrete |-> TRUE, has_code |-> code, insns |-> <<>>, virtual |-> virt,
   non_true_virtual |-> ntv, root |-> rooted, clinit |-> clin, parent |-> nullptr]

MethodShapes ==
  {ExternalMethod(v) : v \in BOOLEAN}
    \cup {DefinedMethod(c, TRUE, TRUE, FALSE, FALSE) : c \in BOOLEAN}
    \cup {DefinedMethod(c, TRUE, FALSE, r, FALSE) : c \in BOOLEAN, r \in BOOLEAN}
    \cup {DefinedMethod(TRUE, FALSE, FALSE, r, FALSE) : r \in BOOLEAN}
    \cup {DefinedMethod(TRUE, FALSE, FALSE, FALSE, TRUE)}

\* Override edges: a concrete virtual method may override a true virtual one;
\* an overridden method is never in the non-true-virtual set; no cycles.
RECURSIVE Ancestors(_, _, _)
Ancestors(par, m, fuel) ==
  IF fuel = 0 \/ par[m] = nullptr THEN {}
  ELSE {par[m]} \cup Ancestors(par, par[m], fuel - 1)

ParentMaps(shape) ==
  {par \in [Methods -> Methods \cup {nullptr}] :
     \A m \in Methods :
       /\ par[m] # nullptr =>
            /\ shape[m].concrete /\ shape[m].virtual
            /\ shape[par[m]].virtual /\ ~shape[par[m]].non_true_virtual
       /\ m \notin Ancestors(par, m, NumMethods)}

\* The instructions of the scope, drawn as one flat list and split per method.
InsnKinds == {Insn(c) : c \in Methods \cup {nullptr}}

RECURSIVE InsnsOf(_, _)
InsnsOf(flat, m) ==
  IF flat = <<>> THEN <<>>
  ELSE IF Head(flat).owner = m THEN <<Head(flat).insn>> \o InsnsOf(Tail(flat), m)
  ELSE InsnsOf(Tail(flat), m)

FlatCode(shape) ==
  SeqsUpTo([owner : {m \in Methods : shape[m].has_code}, insn : InsnKinds], MaxInsns)

MakeScope(shape, par, flat) ==
  [m \in Methods |-> [shape[m] EXCEPT !.insns = InsnsOf(flat, m), !.parent = par[m]]]

\* The free strategy is not in use.
NoStrategy == [roots |-> <<>>, callsites |-> [m \in Methods |-> <<>>]]

ScopeInit ==
  /\ DomIdle
  /\ InlIdle
  /\ \E shape \in [Methods -> MethodShapes] :
       \E par \in ParentMaps(shape) :
         \E flat \in FlatCode(shape) :
           scope = MakeScope(shape, par, flat)
  /\ kind \in {"single", "complete"}
  /\ strat = NoStrategy
  /\ GraphInit

ScopeSpec == ScopeInit /\ [][BuildNext]_vars

\* visit_impl is a plain recursion on one thread: a step that can be taken is taken.
FairStrategySpec == StrategySpec /\ WF_vars(BuildNext)

\* --------------------------------------------------------- bounded rooted graphs
\* The subsets of S with at most k elements.
RECURSIVE SubsetsUpTo(_, _)
SubsetsUpTo(S, k) ==
  IF k = 0 THEN {{}}
  ELSE LET smaller == SubsetsUpTo(S, k - 1)
       IN  smaller \cup {T \cup {x} : T \in smaller, x \in S}

DrawnGraphs ==
  {[n |-> NumNodes, edges |-> E] :
     E \in SubsetsUpTo((0..(NumNodes - 1)) \X (0..(NumNodes - 1)), MaxEdges)}

\* The graphs of DominatorsTest.cpp.
TestSimple ==
  [n |-> 5, edges |-> {<<0, 1>>, <<0, 2>>, <<1, 3>>, <<1, 4>>, <<4, 2>>}]
TestLoop ==
  [n |-> 4, edges |-> {<<0, 1>>, <<0, 2>>, <<1, 3>>, <<2, 3>>, <<3, 0>>}]
TestDoubleLoop1 ==
  [n |-> 6, edges |-> {<<0, 1>>, <<1, 2>>, <<2, 1>>, <<0, 3>>, <<3, 4>>, <<4, 3>>,
                       <<4, 5>>, <<2, 5>>}]
TestDoubleLoop2 ==
  [n |-> 6, edges |-> {<<0, 1>>, <<1, 2>>, <<2, 1>>, <<1, 3>>, <<3, 4>>, <<4, 3>>,
                       <<4, 5>>, <<2, 5>>}]

\* What the tests expect of get_idom, on the nodes they query.
ExpectedIdoms(g) ==
  CASE g = TestSimple -> (1 :> 0) @@ (2 :> 0) @@ (3 :> 1) @@ (4 :> 1)
    [] g = TestLoop -> (1 :> 0) @@ (2 :> 0) @@ (3 :> 0)
    [] g = TestDoubleLoop1 ->
         (0 :> 0) @@ (1 :> 0) @@ (3 :> 0) @@ (2 :> 1) @@ (4 :> 3) @@ (5 :> 0)
    [] g = TestDoubleLoop2 ->
         (0 :> 0) @@ (1 :> 0) @@ (3 :> 1) @@ (2 :> 1) @@ (4 :> 3) @@ (5 :> 1)
    [] OTHER -> <<>>

TestGraphs == {TestSimple, TestLoop, TestDoubleLoop1, TestDoubleLoop2}

\* No call graph under construction.
CgIdle ==
  /\ scope = [m \in Methods |-> ExternalMethod(FALSE)]
  /\ kind = "free"
  /\ strat = NoStrategy
  /\ roots = <<>>
  /\ edges = <<>>
  /\ m_nodes = {}
  /\ visited = {}
  /\ stack = <<>>
  /\ ri = 1
  /\ vi = 1
  /\ calls = [m \in Methods |-> 0]

DomInit ==
  /\ CgIdle
  /\ InlIdle
  /\ graph \in DrawnGraphs \cup TestGraphs
  /\ m_postordering = <<>>
  /\ m_idoms = <<>>
  /\ changed = FALSE
  /\ pos = 1
  /\ dstate = "idle"

DomSpec == DomInit /\ [][DomNext]_vars

\* ------------------------------------------------------------ bounded programs
ClassNames == {<<"a", "b">>, <<"b", "a">>}
ClassAnnos == {{}, {"DoNotInline"}}
MethodAnnos == SUBSET {"DoNotInline", "ForceInline"}

InlInit ==
  /\ CgIdle
  /\ DomIdle
  /\ program \in [name : [Classes -> ClassNames],
                  cls_annos : [Classes -> ClassAnnos],
                  meth_annos : [IMethods -> MethodAnnos]]
  /\ InlFresh

\* The pool runs every task it was handed.
InlSpec == InlInit /\ [][InlNext]_vars

\* ===================================================================== claims
\* The nodes a walk along successor edges reaches from `from`.
RECURSIVE ReachFrom(_, _)
ReachFrom(frontier, seen) ==
  LET next == {edges[i].callee : i \in {j \in DOMAIN edges : edges[j].caller \in frontier}} \ seen
  IN  IF next = {} THEN seen ELSE ReachFrom(next, seen \cup next)

Reachable(from) == ReachFrom({from}, {from})

HasEdge(caller, callee) ==
  \E i \in DOMAIN edges : edges[i].caller = caller /\ edges[i].callee = callee

HasEdgeAt(caller, callee, invoke_it) ==
  \E i \in DOMAIN edges : edges[i] = Edge(caller, callee, invoke_it)

\* C1: once Graph::Graph has returned, whatever the strategy's roots list and
\* callsites function, every non-ghost node of the graph is reachable from
\* GHOST_ENTRY along successor edges.
C1_NodesReachable ==
  Constructed => \A n \in m_nodes : n \in Reachable(GHOST_ENTRY)

\* C1's case: a node that is no root, reached through a callsite only.
C1_Witness ==
  /\ Constructed
  /\ \E n \in m_nodes : ~HasEdge(GHOST_ENTRY, n) /\ n \in Reachable(GHOST_ENTRY)

\* C2 as stated: under the complete strategy every invoke site of the scope that
\* resolves to M has an edge from its method to M and to every method that
\* transitively overrides M.
C2_EveryInvokeSite ==
  (Constructed /\ kind = "complete") =>
    \A k \in Methods : \A i \in DOMAIN scope[k].insns :
      LET M == scope[k].insns[i].resolved
      IN  M # nullptr =>
            /\ HasEdge(k, M)
            /\ \A o \in get_overriding_methods(M) : HasEdge(k, o)

\* C2 amended: under the complete strategy every invoke site of a method that
\* construction visited (one reachable from the roots) that resolves to M has an
\* edge from its method to M when M is concrete, and to every method that
\* transitively overrides M.
C2_VisitedInvokeSite ==
  (Constructed /\ kind = "complete") =>
    \A k \in visited : \A i \in DOMAIN scope[k].insns :
      LET M == scope[k].insns[i].resolved
      IN  M # nullptr =>
            /\ is_concrete(M) => HasEdge(k, M)
            /\ \A o \in get_overriding_methods(M) : HasEdge(k, o)

\* C2's case: a visited method invokes a concrete M that is overridden at two
\* levels.
C2_Witness ==
  /\ Constructed /\ kind = "complete"
  /\ \E k \in visited : \E i \in DOMAIN scope[k].insns :
       LET M == scope[k].insns[i].resolved
       IN  /\ M # nullptr /\ is_concrete(M)
           /\ \E o \in Methods : scope[o].parent # nullptr /\ scope[scope[o].parent].parent = M
           /\ HasEdge(k, M)

\* C3 as stated: in the single-callee graph no edge at all, the ghost entry's
\* included, targets a true-virtual method.
C3_NoEdgeToTrueVirtual ==
  (Constructed /\ kind = "single") =>
    \A i \in DOMAIN edges :
      edges[i].callee \in Methods => ~is_definitely_virtual(edges[i].callee)

\* C3 amended: in the single-callee graph no edge whose source is a method
\* targets a true-virtual method; the ghost entry's edges may (true virtuals
\* with code are roots).
C3_NoCallEdgeToTrueVirtual ==
  (Constructed /\ kind = "single") =>
    \A i \in DOMAIN edges :
      (edges[i].caller # GHOST_ENTRY /\ edges[i].callee \in Methods)
        => ~is_definitely_virtual(edges[i].callee)

\* C3's case: a visited method invokes a true virtual, and a call edge was made.
C3_Witness ==
  /\ Constructed /\ kind = "single"
  /\ \E k \in visited : \E i \in DOMAIN scope[k].insns :
       /\ scope[k].insns[i].resolved # nullptr
       /\ is_definitely_virtual(scope[k].insns[i].resolved)
       /\ is_concrete(scope[k].insns[i].resolved)
  /\ \E i \in DOMAIN edges : edges[i].caller \in Methods /\ edges[i].callee \in Methods

\* C4 as stated: every method of the program for which the strategy returns no
\* callsites has an edge to GHOST_EXIT.
C4_EverySinkHasExitEdge ==
  Constructed =>
    \A m \in Methods : get_callsites(m) = <<>> => HasEdge(m, GHOST_EXIT)

\* C4 amended: every method with a node in the built graph (every method
\* reachable from the roots) for which the strategy returns no callsites has an
\* edge to GHOST_EXIT.
C4_NodeSinkHasExitEdge ==
  Constructed =>
    \A m \in m_nodes : get_callsites(m) = <<>> => HasEdge(m, GHOST_EXIT)

\* C4's case: a sink that is no root, reached through a callsite.
C4_Witness ==
  /\ Constructed
  /\ \E m \in m_nodes :
       /\ get_callsites(m) = <<>>
       /\ ~HasEdge(GHOST_ENTRY, m)
       /\ HasEdge(m, GHOST_EXIT)

\* C5: after construction with any strategy, one with repeated roots or
\* callsites included, no two distinct edges have the same
\* (caller, callee, invoke locator).
C5_NoDuplicateEdge ==
  Constructed =>
    \A i \in DOMAIN edges : \A j \in DOMAIN edges : i # j => edges[i] # edges[j]

\* C7 as stated: where a method k holds an invoke resolving to a concrete h that
\* nothing overrides, that is no true virtual, no root and no static initialiser,
\* both strategies' graphs hold the edge k->h with that invoke's locator, and
\* neither holds an edge GHOST_ENTRY->h.
FinalUnrooted(h) ==
  /\ h # nullptr
  /\ is_concrete(h)
  /\ get_overriding_methods(h) = {}
  /\ ~is_definitely_virtual(h)
  /\ ~root(h)
  /\ ~is_clinit(h)

C7_EdgeToFinalCallee ==
  Constructed =>
    \A k \in Methods : \A i \in DOMAIN scope[k].insns :
      LET h == scope[k].insns[i].resolved
      IN  FinalUnrooted(h) =>
            /\ HasEdgeAt(k, h, i)
            /\ ~HasEdge(GHOST_ENTRY, h)

\* C7 amended: the same, for a method k that construction visited (k is
\* reachable from the roots of the strategy at hand).
C7_EdgeFromVisitedToFinalCallee ==
  Constructed =>
    \A k \in visited : \A i \in DOMAIN scope[k].insns :
      LET h == scope[k].insns[i].resolved
      IN  FinalUnrooted(h) =>
            /\ HasEdgeAt(k, h, i)
            /\ ~HasEdge(GHOST_ENTRY, h)

\* C7's case: k, visited but no root itself, invokes such an h.
C7_Witness ==
  /\ Constructed
  /\ \E k \in visited : \E i \in DOMAIN scope[k].insns :
       /\ FinalUnrooted(scope[k].insns[i].resolved)
       /\ scope[k].insns[i].resolved # k
       /\ ~HasEdge(GHOST_ENTRY, k)
       /\ HasEdgeAt(k, scope[k].insns[i].resolved, i)

\* C10: construction terminates, recursion in the call chains or not:
\* get_callsites runs at most once per method, and the constructor returns.
C10_Terminates ==
  /\ [](\A m \in Methods : calls[m] <= 1)
  /\ <>Constructed

\* C10's case: construction returned after walking two methods that call each
\* other.
C10_Witness ==
  /\ Constructed
  /\ \E m \in Methods : \E n \in Methods \ {m} : HasEdge(m, n) /\ HasEdge(n, m)

\* The nodes reachable from the entry along paths that avoid node d.
RECURSIVE ReachAvoiding(_, _, _, _)
ReachAvoiding(g, d, frontier, seen) ==
  LET next == (UNION {Succs(g, v) : v \in frontier} \ {d}) \ seen
  IN  IF next = {} THEN seen ELSE ReachAvoiding(g, d, next, seen \cup next)

ReachableNodes(g) == ReachAvoiding(g, NoIdom, {Entry}, {Entry})

\* d dominates v: every path from the entry to v goes through d.
Dominates(g, d, v) ==
  \/ d = v
  \/ d = Entry
  \/ v \notin ReachAvoiding(g, d, {Entry}, {Entry})

StrictDominators(g, v) == {d \in Nodes(g) \ {v} : Dominates(g, d, v)}

\* C6: on every rooted graph, cycles and back edges to the entry included, the
\* engine's idom is the immediate dominator on every node reachable from the
\* entry: idom(entry) = entry, and for any other reachable v idom(v) strictly
\* dominates v and every other strict dominator of v dominates it; on the
\* tests' graphs it is what the tests expect.
C6_IdomIsImmediateDominator ==
  dstate = "done" =>
    /\ get_idom(Entry) = Entry
    /\ \A v \in ReachableNodes(graph) \ {Entry} :
         /\ get_idom(v) \in StrictDominators(graph, v)
         /\ \A d \in StrictDominators(graph, v) : Dominates(graph, d, get_idom(v))
    /\ \A v \in DOMAIN ExpectedIdoms(graph) : get_idom(v) = ExpectedIdoms(graph)[v]

\* C6's case: the engine finished on a graph with a back edge to the entry and
\* a node whose immediate dominator is neither the entry nor its only
\* predecessor.
C6_Witness ==
  /\ dstate = "done"
  /\ \E u \in ReachableNodes(graph) \ {Entry} : <<u, Entry>> \in graph.edges
  /\ \E v \in ReachableNodes(graph) :
       /\ get_idom(v) # Entry
       /\ Cardinality(Preds(graph, v) \cap ReachableNodes(graph)) >= 2

\* C8: once a call of populate has completed, no later call, on the same or on
\* another scope, changes the three sets or any method's do-not-inline or
\* force-inline flag.
C8_PopulateIdempotent ==
  [][m_populated =>
       /\ black_list' = black_list
       /\ caller_black_list' = caller_black_list
       /\ intradex_white_list' = intradex_white_list
       /\ dont_inline' = dont_inline
       /\ force_inline' = force_inline
       /\ m_populated']_vars

\* C8's case: a second call was made on a scope holding a class the first one
\* did not see and that the black list would take.
C8_Witness ==
  /\ m_populated
  /\ ncalls = 2
  /\ \E c \in arg : MatchesAny(c, m_black_list) /\ c \notin black_list

\* A listed no-inline annotation on the method itself or on its class.
MarkedNoInline(method) ==
  \/ has_any_annotation(program.meth_annos[method], m_no_inline_annos)
  \/ has_any_annotation(program.cls_annos[Owner(method)], m_no_inline_annos)

\* C9: under every interleaving of the per-method tasks, populate never sets
\* force-inline on a method marked no-inline (itself or through its class), a
\* force-inline annotation on it notwithstanding, and such a method of the
\* populated scope ends with do-not-inline set.
C9_DontInlinePrecedence ==
  /\ \A m \in IMethods : MarkedNoInline(m) => m \notin force_inline
  /\ m_populated =>
       \A m \in IMethods : (task[m] = "done" /\ MarkedNoInline(m)) => m \in dont_inline

\* C9's case: populate completed on a scope with a method carrying both
\* annotations in an unmarked class, while another method got force-inline.
C9_Witness ==
  /\ m_populated
  /\ \E m \in IMethods :
       /\ task[m] = "done"
       /\ program.meth_annos[m] = {"DoNotInline", "ForceInline"}
       /\ program.cls_annos[Owner(m)] = {}
       /\ m \in dont_inline
  /\ force_inline # {}

====
